---- MODULE Spec2Model ----
(***************************************************************************)
(* camera-alignment-table: the moire table generator of src/src/index.js   *)
(* and src/src/rect.js.                                                    *)
(*                                                                         *)
(* JavaScript numbers are modelled as binary fixed-point values with Bits  *)
(* fractional bits, plus the three special values NaN, +Infinity and       *)
(* -Infinity with their IEEE-754 arithmetic and comparison rules.  Every   *)
(* finite operation rounds to the grid 1/2^Bits.  Integers are exact.      *)
(* The sign of zero is not represented: a division by zero takes the sign  *)
(* of its numerator.  The arithmetic is defined as functions, f[a, b], so  *)
(* that an operation works on the values of its operands.                  *)
(***************************************************************************)
EXTENDS Integers, Sequences, FiniteSets

\* Fractional bits of the fixed-point numbers.
Bits == 14

\* 2 to the power n, for a natural n
Pow2(n) == 2 ^ n

\* The fixed-point representation of 1.
ONE == Pow2(Bits)

(***************************************************************************)
(* Numbers                                                                 *)
(***************************************************************************)
Fin(v) == [k |-> "fin", v |-> v]
NaN == [k |-> "nan", v |-> 0]
PInf == [k |-> "inf", v |-> 1]
NInf == [k |-> "inf", v |-> -1]
\* An integer literal of the source.
Num(n) == Fin(n * ONE)

\* The values a JavaScript number can take in the model.
Number == [k : {"fin", "nan", "inf"}, v : Int]

IsNaN(a) == a.k = "nan"
IsFin(a) == a.k = "fin"
IsInf(a) == a.k = "inf"
Sgn[n \in Int] == IF n > 0 THEN 1 ELSE IF n < 0 THEN -1 ELSE 0
Abs[n \in Int] == IF n < 0 THEN -n ELSE n
SignedInf(s) == IF s < 0 THEN NInf ELSE PInf

\* unary minus
Neg[a \in Number] ==
    IF IsNaN(a) THEN NaN ELSE [k |-> a.k, v |-> -a.v]

\* a + b
Add[a \in Number, b \in Number] ==
    IF IsNaN(a) \/ IsNaN(b) THEN NaN
    ELSE IF IsInf(a) /\ IsInf(b) THEN (IF a.v = b.v THEN a ELSE NaN)
    ELSE IF IsInf(a) THEN a
    ELSE IF IsInf(b) THEN b
    ELSE Fin(a.v + b.v)

\* a - b
Sub[a \in Number, b \in Number] == Add[a, Neg[b]]

\* x * y / ONE for non-negative raw values, without leaving 32 bits.
MulRaw[x \in Int, y \in Int] ==
    LET xh == x \div ONE
        xl == x % ONE
        yh == y \div ONE
        yl == y % ONE
    IN  xh * yh * ONE + xh * yl + xl * yh + (xl * yl + ONE \div 2) \div ONE

\* a * b
Mul[a \in Number, b \in Number] ==
    IF IsNaN(a) \/ IsNaN(b) THEN NaN
    ELSE IF IsInf(a) \/ IsInf(b)
         THEN (IF a.v = 0 \/ b.v = 0 THEN NaN ELSE SignedInf(Sgn[a.v] * Sgn[b.v]))
    ELSE Fin(Sgn[a.v] * Sgn[b.v] * MulRaw[Abs[a.v], Abs[b.v]])

\* The first n fractional bits of r / y, for 0 <= r < y, four bits at a time.
FracBits[r \in Int, y \in Int, n \in Int] ==
    IF n = 0 THEN 0
    ELSE IF n < 4 THEN (r * Pow2(n)) \div y
    ELSE ((16 * r) \div y) * Pow2(n - 4) + FracBits[(16 * r) % y, y, n - 4]

\* x * ONE / y for raw x >= 0, y > 0, by long division, rounded to nearest.
DivRaw[x \in Int, y \in Int] ==
    (x \div y) * ONE + (FracBits[x % y, y, Bits + 1] + 1) \div 2

\* a / b
Div[a \in Number, b \in Number] ==
    IF IsNaN(a) \/ IsNaN(b) THEN NaN
    ELSE IF IsInf(a) THEN (IF IsInf(b) THEN NaN
                           ELSE SignedInf(a.v * (IF b.v < 0 THEN -1 ELSE 1)))
    ELSE IF IsInf(b) THEN Fin(0)
    ELSE IF b.v = 0 THEN (IF a.v = 0 THEN NaN ELSE SignedInf(a.v))
    ELSE Fin(Sgn[a.v] * Sgn[b.v] * DivRaw[Abs[a.v], Abs[b.v]])

\* a < b ; any comparison with NaN is false
Lt[a \in Number, b \in Number] ==
    IF IsNaN(a) \/ IsNaN(b) THEN FALSE
    ELSE IF IsInf(a) THEN a.v < 0 /\ ~(IsInf(b) /\ b.v < 0)
    ELSE IF IsInf(b) THEN b.v > 0
    ELSE a.v < b.v

\* a == b on numbers
Eq[a \in Number, b \in Number] == ~IsNaN(a) /\ ~IsNaN(b) /\ a = b
\* a <= b
Le[a \in Number, b \in Number] == Lt[a, b] \/ Eq[a, b]
\* a > b
Gt[a \in Number, b \in Number] == Lt[b, a]
\* a >= b
Ge[a \in Number, b \in Number] == Le[b, a]

\* Math.floor
Floor[a \in Number] ==
    IF IsFin(a) THEN Fin((a.v \div ONE) * ONE) ELSE a

\* Truthiness of (a % 2): the remainder exists and is not zero.
OddTruthy[a \in Number] ==
    IsFin(a) /\ a.v % (2 * ONE) # 0

(***************************************************************************)
(* Math.log, Math.exp, Math.pow, Math.sin, Math.asin in fixed point        *)
(***************************************************************************)
\* sum of z^(2i+1)/(2i+1) for the odd powers from z^n on; zn = z^n, z2 = z^2
AtanhSeries[zn \in Int, z2 \in Int, n \in Int] ==
    IF zn = 0 THEN 0
    ELSE zn \div n + AtanhSeries[MulRaw[zn, z2], z2, n + 2]

\* ln m for raw m in [ONE, 2*ONE]: 2 * atanh((m - 1) / (m + 1))
LnMant[m \in Int] ==
    LET z == DivRaw[m - ONE, m + ONE]
    IN  2 * AtanhSeries[z, MulRaw[z, z], 1]

LN2 == LnMant[2 * ONE]

\* ln x for raw x > 0
LnRaw[x \in Int] ==
    IF x >= 2 * ONE THEN LN2 + LnRaw[x \div 2]
    ELSE IF x < ONE THEN LnRaw[2 * x] - LN2
    ELSE LnMant[x]

\* sum of r^i/i! from the term t = r^(n-1)/(n-1)! on, for raw r >= 0
ExpSeries[t \in Int, r \in Int, n \in Int] ==
    IF t = 0 THEN 0
    ELSE t + ExpSeries[MulRaw[t, r] \div n, r, n + 1]

\* e^y for raw y: e^y = 2^n * e^r with y = n * ln 2 + r, 0 <= r < ln 2
ExpRaw[y \in Int] ==
    IF y >= 0 THEN ExpSeries[ONE, y % LN2, 1] * Pow2(y \div LN2)
    ELSE ExpSeries[ONE, y % LN2, 1] \div Pow2(-(y \div LN2))

\* x * y / ONE for raw values of either sign
MulSigned[x \in Int, y \in Int] == Sgn[x] * Sgn[y] * MulRaw[Abs[x], Abs[y]]

IsInteger[a \in Number] == IsFin(a) /\ a.v % ONE = 0
IsOddInteger[a \in Number] == IsInteger[a] /\ (a.v \div ONE) % 2 = 1

\* Math.pow(x, y) where x or y is NaN, infinite or zero, or x is negative:
\* the cases of Number::exponentiate
PowSpecial[x \in Number, y \in Number] ==
    IF IsNaN(y) THEN NaN
    ELSE IF IsFin(y) /\ y.v = 0 THEN Num(1)
    ELSE IF IsNaN(x) THEN NaN
    ELSE IF IsInf(y) THEN
        (IF IsInf(x) \/ Abs[x.v] > ONE THEN (IF y.v > 0 THEN PInf ELSE Fin(0))
         ELSE IF Abs[x.v] = ONE THEN NaN
         ELSE (IF y.v > 0 THEN Fin(0) ELSE PInf))
    ELSE IF IsInf(x) THEN
        (IF y.v < 0 THEN Fin(0)
         ELSE IF x.v < 0 /\ IsOddInteger[y] THEN NInf ELSE PInf)
    ELSE IF x.v = 0 THEN (IF y.v > 0 THEN Fin(0) ELSE PInf)
    ELSE IF ~IsInteger[y] THEN NaN
    ELSE IF IsOddInteger[y] THEN Fin(-ExpRaw[MulSigned[y.v, LnRaw[-x.v]]])
    ELSE Fin(ExpRaw[MulSigned[y.v, LnRaw[-x.v]]])

\* Math.pow(x, y): e^(y * ln x) for finite x > 0 and finite y # 0
Pow[x \in Number, y \in Number] ==
    IF IsFin(x) /\ IsFin(y) /\ x.v > 0 /\ y.v # 0
    THEN Fin(ExpRaw[MulSigned[y.v, LnRaw[x.v]]])
    ELSE PowSpecial[x, y]

\* Math.PI
PI == Fin((31416 * ONE) \div 10000)

\* sum of the sine series from the term t = +-x^(n-2)/(n-2)! on; x2 = x^2
SinSeries[t \in Int, x2 \in Int, n \in Int] ==
    IF t = 0 THEN 0
    ELSE t + SinSeries[-Sgn[t] * (MulRaw[Abs[t], x2] \div ((n - 1) * n)), x2, n + 2]

\* sin x for raw x
SinRaw[x \in Int] == SinSeries[x, MulRaw[Abs[x], Abs[x]], 3]

\* Math.sin
Sin[a \in Number] ==
    IF IsFin(a) THEN Fin(SinRaw[a.v]) ELSE NaN

\* sum of the arcsine series from the term t of x^n on, n >= 3 odd; x2 = x^2
AsinSeries[t \in Int, x2 \in Int, n \in Int] ==
    IF t = 0 THEN 0
    ELSE t + AsinSeries[(((MulRaw[t, x2] * (n - 2)) \div (n - 1)) * (n - 2)) \div n,
                        x2, n + 2]

\* Math.asin
Asin[a \in Number] ==
    IF ~IsFin(a) \/ Abs[a.v] > ONE THEN NaN
    ELSE Fin(Sgn[a.v] * AsinSeries[Abs[a.v], MulRaw[Abs[a.v], Abs[a.v]], 3])

(***************************************************************************)
(* The program state                                                       *)
(***************************************************************************)
VARIABLES
    canvas,     \* canvas.width, canvas.height: the bitmap size
    canvasStyle,\* canvas.style.width, canvas.style.height, in px
    client,     \* the client size read by the latest canvasResize
    ctx,        \* the 2d context: its drawing state and the calls of the latest drawTable
    about,      \* about.style.display
    link,       \* dataUrlLink: href, download
    event,      \* the event handled last, its composed path, and about.style.display before it
    moire,      \* the frame of a drawTargetMoire call in progress
    prev        \* SpecDraw: the runs so far, the calls of the run before the latest,
                \* and the context state the latest run started from

vars == <<canvas, canvasStyle, client, ctx, about, link, event, moire, prev>>

(***************************************************************************)
(* src/src/rect.js                                                         *)
(***************************************************************************)
Rect(topLeftX, topLeftY, width, height) ==
    [topLeftX |-> topLeftX, topLeftY |-> topLeftY, width |-> width, height |-> height]

(***************************************************************************)
(* The drawing context.  A fill style is a colour or a radial gradient     *)
(* with its colour stops.  Every clearRect, fillRect and stroke call is    *)
(* logged in ops with its arguments and the styles it paints with.         *)
(***************************************************************************)
Color(c) == [kind |-> "color", color |-> c, grd |-> <<>>, stops |-> <<>>]
NoFill == [kind |-> "none", color |-> "", grd |-> <<>>, stops |-> <<>>]

\* The state of a context after getContext('2d') or a change of the bitmap size.
DefaultCtx ==
    [fillStyle |-> Color("#000000"), strokeStyle |-> "#000000", lineWidth |-> Num(1),
     lineDash |-> <<>>, path |-> <<>>, ops |-> <<>>]

ClearRect(c, x, y, w, h) ==
    [c EXCEPT !.ops = Append(@,
        [op |-> "clearRect", fillStyle |-> NoFill, strokeStyle |-> "", lineWidth |-> NaN,
         lineDash |-> <<>>, g |-> <<x, y, w, h>>])]

FillRect(c, x, y, w, h) ==
    [c EXCEPT !.ops = Append(@,
        [op |-> "fillRect", fillStyle |-> c.fillStyle, strokeStyle |-> "", lineWidth |-> NaN,
         lineDash |-> <<>>, g |-> <<x, y, w, h>>])]

SetLineDash(c, segments) == [c EXCEPT !.lineDash = segments]
BeginPath(c) == [c EXCEPT !.path = <<>>]
MoveTo(c, x, y) == [c EXCEPT !.path = Append(@, <<"M", x, y>>)]
LineTo(c, x, y) == [c EXCEPT !.path = Append(@, <<"L", x, y>>)]

Stroke(c) ==
    [c EXCEPT !.ops = Append(@,
        [op |-> "stroke", fillStyle |-> NoFill, strokeStyle |-> c.strokeStyle,
         lineWidth |-> c.lineWidth, lineDash |-> c.lineDash, g |-> c.path])]

\* createRadialGradient(x0, y0, r0, x1, y1, r1), without colour stops yet
CreateRadialGradient(x0, y0, r0, x1, y1, r1) ==
    [kind |-> "radial", color |-> "", grd |-> <<x0, y0, r0, x1, y1, r1>>, stops |-> <<>>]

AddColorStop(grd, offset, color) ==
    [grd EXCEPT !.stops = Append(@, <<offset, color>>)]

(***************************************************************************)
(* src/src/index.js: the drawing functions.  A value the source keeps in a *)
(* local variable is handed on as an operator parameter.                   *)
(***************************************************************************)
getPPLineWidth(value) ==
    IF OddTruthy[value] THEN Num(3) ELSE Num(4)

drawLine(c, fromX, fromY, toX, toY) ==
    Stroke(LineTo(MoveTo(BeginPath(SetLineDash([c EXCEPT !.strokeStyle = "#000"], <<>>)),
                         fromX, fromY),
                  toX, toY))

generateRingGradient(x, y, inR, outR) ==
    CreateRadialGradient(x, y, inR, x, y, outR)

\* lines 125-128: startR, given Math.floor(rect.height / 50)
MoireStartR(outR, startR) ==
    IF Lt[Div[outR, startR], Num(20)] THEN Div[outR, Num(10)] ELSE startR

\* lines 129-131: the variables of the loop
MoireVars(c, x, y, outR, rect, startR) ==
    [pc |-> "loop", x |-> x, y |-> y, outR |-> outR, rect |-> rect,
     startR |-> startR, curR |-> startR,
     q |-> Pow[Div[Num(1), startR], Div[Num(1), Div[outR, Num(5)]]],
     step |-> 1, prgValue |-> NaN, rings |-> 0, ctx |-> c]

\* drawTargetMoire up to its loop: lines 125-131
MoireEnter(c, x, y, outR, rect) ==
    MoireVars(c, x, y, outR, rect, MoireStartR(outR, Floor[Div[rect.height, Num(50)]]))

\* lines 137-143: the gradient of one ring
RingGradient(x, y, inR, outR) ==
    AddColorStop(AddColorStop(AddColorStop(AddColorStop(AddColorStop(AddColorStop(
        generateRingGradient(x, y, inR, outR),
        "0", "#fff0"), "0.1", "#fff"), "0.45", "#000"), "0.55", "#000"),
        "0.9", "#fff"), "1", "#fff0")

\* lines 137-147: one ring is painted and the loop variables advance
MoirePaint(m) ==
    [m EXCEPT !.ctx = FillRect([m.ctx EXCEPT !.fillStyle =
                                    RingGradient(m.x, m.y, Sub[m.curR, Num(5)],
                                                 Add[m.curR, m.prgValue])],
                               m.rect.topLeftX, m.rect.topLeftY, m.rect.width, m.rect.height),
              !.rings = @ + 1,
              !.curR = Add[m.curR, m.prgValue],
              !.step = @ + 1]

\* MoireBody without the break on curR < 5
MoireBodyNoMin(m) ==
    IF Gt[Add[m.curR, m.prgValue], m.outR] THEN [m EXCEPT !.pc = "done"]
    ELSE IF Le[m.prgValue, Num(1)] THEN [m EXCEPT !.pc = "done"]
    ELSE MoirePaint(m)

\* MoireBody with continue in the place of the break on prgValue <= 1
MoireBodyContinue(m) ==
    IF Gt[Add[m.curR, m.prgValue], m.outR] THEN [m EXCEPT !.pc = "done"]
    ELSE IF Le[m.prgValue, Num(1)] THEN m
    ELSE IF Lt[m.curR, Num(5)] THEN [m EXCEPT !.pc = "done"]
    ELSE MoirePaint(m)

\* lines 134-147: the loop body, once prgValue is assigned
MoireBody(m) ==
    IF Gt[Add[m.curR, m.prgValue], m.outR] THEN [m EXCEPT !.pc = "done"]
    ELSE IF Le[m.prgValue, Num(1)] THEN [m EXCEPT !.pc = "done"]
    ELSE IF Lt[m.curR, Num(5)] THEN [m EXCEPT !.pc = "done"]
    ELSE MoirePaint(m)

\* MoireStep with the exponent step in the place of step - 1
MoireStepOffByOne(m) ==
    IF ~Le[m.curR, m.outR] THEN [m EXCEPT !.pc = "done"]
    ELSE MoireBody([m EXCEPT !.prgValue = Mul[m.startR, Pow[m.q, Num(m.step)]]])

\* One test of the loop condition and, when it holds, one run of the body:
\* lines 132-148.
MoireStep(m) ==
    IF ~Le[m.curR, m.outR] THEN [m EXCEPT !.pc = "done"]
    ELSE MoireBody([m EXCEPT !.prgValue = Mul[m.startR, Pow[m.q, Num(m.step - 1)]]])

\* Up to n steps of the loop, halved so that the evaluation stays shallow.
RECURSIVE MoireRunN(_, _)
MoireRunN(m, n) ==
    IF m.pc = "done" \/ n = 0 THEN m
    ELSE IF n = 1 THEN MoireStep(m)
    ELSE MoireRunN(MoireRunN(m, n \div 2), n - n \div 2)

\* The loop, run until it is left.
RECURSIVE MoireRun(_)
MoireRun(m) ==
    IF m.pc = "done" THEN m ELSE MoireRun(MoireRunN(m, 32))

drawTargetMoire(c, x, y, outR, rect) ==
    MoireRun(MoireEnter(c, x, y, outR, rect)).ctx

\* lines 160-163: the variables of the loop, given cellSize
ChessVars(c, rect, cellSize) ==
    [pc |-> "loop", rect |-> rect, cellSize |-> cellSize,
     lineY |-> Div[cellSize, Num(2)], startOffset |-> Num(0),
     ctx |-> SetLineDash([c EXCEPT !.lineWidth = cellSize], <<cellSize, cellSize>>)]

\* ChessEnter without the assignment to ctx.strokeStyle
ChessEnterStale(c, rect) ==
    ChessVars(c, rect, Mul[getPPLineWidth(rect.height), Num(2)])

\* drawChessMoire up to its loop: lines 158-163
ChessEnter(c, rect) ==
    ChessVars([c EXCEPT !.strokeStyle = "#000"], rect,
              Mul[getPPLineWidth(rect.height), Num(2)])

\* ChessStep with the loop condition lineY < rect.height
ChessStepStrict(s) ==
    IF ~Lt[s.lineY, s.rect.height] THEN [s EXCEPT !.pc = "done"]
    ELSE [s EXCEPT !.ctx = Stroke(LineTo(MoveTo(BeginPath(s.ctx),
                                                Add[s.rect.topLeftX, s.startOffset], s.lineY),
                                         Add[s.rect.topLeftX, s.rect.width], s.lineY)),
                   !.lineY = Add[s.lineY, s.cellSize],
                   !.startOffset = IF Eq[s.startOffset, s.cellSize]
                                   THEN Num(0) ELSE s.cellSize]

\* One test of the loop condition and, when it holds, one run of the body:
\* lines 164-171.
ChessStep(s) ==
    IF ~Le[s.lineY, s.rect.height] THEN [s EXCEPT !.pc = "done"]
    ELSE [s EXCEPT !.ctx = Stroke(LineTo(MoveTo(BeginPath(s.ctx),
                                                Add[s.rect.topLeftX, s.startOffset], s.lineY),
                                         Add[s.rect.topLeftX, s.rect.width], s.lineY)),
                   !.lineY = Add[s.lineY, s.cellSize],
                   !.startOffset = IF Eq[s.startOffset, s.cellSize]
                                   THEN Num(0) ELSE s.cellSize]

\* Up to n steps of the loop, halved so that the evaluation stays shallow.
RECURSIVE ChessRunN(_, _)
ChessRunN(s, n) ==
    IF s.pc = "done" \/ n = 0 THEN s
    ELSE IF n = 1 THEN ChessStep(s)
    ELSE ChessRunN(ChessRunN(s, n \div 2), n - n \div 2)

\* The loop, run until it is left.
RECURSIVE ChessRun(_)
ChessRun(s) ==
    IF s.pc = "done" THEN s ELSE ChessRun(ChessRunN(s, 32))

drawChessMoire(c, rect) ==
    ChessRun(ChessEnter(c, rect)).ctx

drawRect(c, fill, rect) ==
    FillRect([c EXCEPT !.fillStyle = Color(fill)],
             rect.topLeftX, rect.topLeftY, rect.width, rect.height)

\* CornerSize with the difference taken the other way round
CornerSizeSign(a, b) ==
    Sub[Mul[b, Sin[Sub[Div[PI, Num(4)], Asin[Div[Neg[Sub[b, a]], b]]]]], b]

\* lines 201-202, given a and b
CornerSize(a, b) ==
    Sub[b, Mul[b, Sin[Sub[Div[PI, Num(4)], Asin[Div[Neg[Sub[b, a]], b]]]]]]

getCornerTargetSize(rect) ==
    CornerSize(Div[rect.width, Num(2)], Div[rect.height, Num(2)])

\* FrameOfWidth with borderWidth left unfloored
FrameOfWidthNoFloor(canvasWidth, canvasHeight, frameWidth) ==
    Rect(Div[Sub[canvasWidth, frameWidth], Num(2)], Num(0), frameWidth, canvasHeight)

\* lines 218 and 220, given frameWidth
FrameOfWidth(canvasWidth, canvasHeight, frameWidth) ==
    Rect(Floor[Div[Sub[canvasWidth, frameWidth], Num(2)]], Num(0), frameWidth, canvasHeight)

\* The frame of drawTable: lines 216-220
FrameRect(canvasWidth, canvasHeight) ==
    FrameOfWidth(canvasWidth, canvasHeight, Floor[Div[Mul[canvasHeight, Num(4)], Num(3)]])

\* lines 239-248: the horizontal guide lines
DrawHorLines(c, frameRect, cornerTargetRad) ==
    drawLine(drawLine(drawLine(
        [c EXCEPT !.lineWidth = getPPLineWidth(frameRect.height)],
        frameRect.topLeftX,
        Div[frameRect.height, Num(2)],
        Add[frameRect.topLeftX, frameRect.width],
        Div[frameRect.height, Num(2)]),
        frameRect.topLeftX,
        Add[frameRect.topLeftY, cornerTargetRad],
        Add[frameRect.topLeftX, frameRect.width],
        Add[frameRect.topLeftY, cornerTargetRad]),
        frameRect.topLeftX,
        Sub[Add[frameRect.topLeftY, frameRect.height], cornerTargetRad],
        Add[frameRect.topLeftX, frameRect.width],
        Sub[Add[frameRect.topLeftY, frameRect.height], cornerTargetRad])

\* DrawVertLines with the x of the lines taken from the frame's width alone
DrawVertLinesNoBorder(c, frameRect, cornerTargetRad) ==
    drawLine(drawLine(drawLine(
        [c EXCEPT !.lineWidth = getPPLineWidth(frameRect.width)],
        Div[frameRect.width, Num(2)],
        frameRect.topLeftY,
        Div[frameRect.width, Num(2)],
        frameRect.height),
        cornerTargetRad,
        frameRect.topLeftY,
        cornerTargetRad,
        frameRect.height),
        Sub[frameRect.width, cornerTargetRad],
        frameRect.topLeftY,
        Sub[frameRect.width, cornerTargetRad],
        frameRect.height)

\* lines 250-259: the vertical guide lines; frameWidth is frameRect.width
DrawVertLines(c, frameRect, cornerTargetRad) ==
    drawLine(drawLine(drawLine(
        [c EXCEPT !.lineWidth = getPPLineWidth(frameRect.width)],
        Add[frameRect.topLeftX, Div[frameRect.width, Num(2)]],
        frameRect.topLeftY,
        Add[frameRect.topLeftX, Div[frameRect.width, Num(2)]],
        frameRect.height),
        Add[frameRect.topLeftX, cornerTargetRad],
        frameRect.topLeftY,
        Add[frameRect.topLeftX, cornerTargetRad],
        frameRect.height),
        Sub[Add[frameRect.topLeftX, frameRect.width], cornerTargetRad],
        frameRect.topLeftY,
        Sub[Add[frameRect.topLeftX, frameRect.width], cornerTargetRad],
        frameRect.height)

\* The variables of drawTable: the canvas size read at lines 210-211,
\* frameRect of lines 216-220 and cornerTargetRad of line 227
TableVars(c, canvasWidth, canvasHeight, frameRect) ==
    [pc |-> "clear", canvasWidth |-> canvasWidth, canvasHeight |-> canvasHeight,
     frameRect |-> frameRect,
     cornerTargetRad |-> Div[getCornerTargetSize(frameRect), Num(2)],
     ctx |-> c]

TableEnter(c, canvasWidth, canvasHeight) ==
    TableVars(c, canvasWidth, canvasHeight, FrameRect(canvasWidth, canvasHeight))

\* The statements of drawTable, one drawing call after the other.
TableStep(t) ==
    CASE t.pc = "clear" ->        \* line 212
           [t EXCEPT !.ctx = ClearRect(t.ctx, Num(0), Num(0), t.canvasWidth, t.canvasHeight),
                     !.pc = "background"]
      [] t.pc = "background" ->   \* line 213
           [t EXCEPT !.ctx = drawRect(t.ctx, "#000",
                                      Rect(Num(0), Num(0), t.canvasWidth, t.canvasHeight)),
                     !.pc = "frame"]
      [] t.pc = "frame" ->        \* line 221
           [t EXCEPT !.ctx = drawRect(t.ctx, "#fff", t.frameRect), !.pc = "chess"]
      [] t.pc = "chess" ->        \* line 223
           [t EXCEPT !.ctx = drawChessMoire(t.ctx, t.frameRect), !.pc = "center"]
      [] t.pc = "center" ->       \* line 225
           [t EXCEPT !.ctx = drawTargetMoire(t.ctx,
                                 Add[t.frameRect.topLeftX, Div[t.frameRect.width, Num(2)]],
                                 Div[t.frameRect.height, Num(2)],
                                 Div[t.frameRect.height, Num(2)],
                                 t.frameRect),
                     !.pc = "corner1"]
      [] t.pc = "corner1" ->      \* line 228
           [t EXCEPT !.ctx = drawTargetMoire(t.ctx,
                                 Add[t.frameRect.topLeftX, t.cornerTargetRad],
                                 Add[t.frameRect.topLeftY, t.cornerTargetRad],
                                 t.cornerTargetRad, t.frameRect),
                     !.pc = "corner2"]
      [] t.pc = "corner2" ->      \* lines 229-232
           [t EXCEPT !.ctx = drawTargetMoire(t.ctx,
                                 Sub[Add[t.frameRect.topLeftX, t.frameRect.width],
                                     t.cornerTargetRad],
                                 Add[t.frameRect.topLeftY, t.cornerTargetRad],
                                 t.cornerTargetRad, t.frameRect),
                     !.pc = "corner3"]
      [] t.pc = "corner3" ->      \* line 233
           [t EXCEPT !.ctx = drawTargetMoire(t.ctx,
                                 Add[t.frameRect.topLeftX, t.cornerTargetRad],
                                 Sub[Add[t.frameRect.topLeftY, t.frameRect.height],
                                     t.cornerTargetRad],
                                 t.cornerTargetRad, t.frameRect),
                     !.pc = "corner4"]
      [] t.pc = "corner4" ->      \* lines 234-237
           [t EXCEPT !.ctx = drawTargetMoire(t.ctx,
                                 Sub[Add[t.frameRect.topLeftX, t.frameRect.width],
                                     t.cornerTargetRad],
                                 Sub[Add[t.frameRect.topLeftY, t.frameRect.height],
                                     t.cornerTargetRad],
                                 t.cornerTargetRad, t.frameRect),
                     !.pc = "hor"]
      [] t.pc = "hor" ->          \* lines 239-248
           [t EXCEPT !.ctx = DrawHorLines(t.ctx, t.frameRect, t.cornerTargetRad),
                     !.pc = "vert"]
      [] t.pc = "vert" ->         \* lines 250-259
           [t EXCEPT !.ctx = DrawVertLines(t.ctx, t.frameRect, t.cornerTargetRad),
                     !.pc = "done"]
      [] OTHER -> t

\* Up to n statements of drawTable, halved so that the evaluation stays shallow.
RECURSIVE TableRunN(_, _)
TableRunN(t, n) ==
    IF t.pc = "done" \/ n = 0 THEN t
    ELSE IF n = 1 THEN TableStep(t)
    ELSE TableRunN(TableRunN(t, n \div 2), n - n \div 2)

\* drawTable on a context whose canvas is canvasWidth x canvasHeight
drawTable(c, canvasWidth, canvasHeight) ==
    TableRunN(TableEnter(c, canvasWidth, canvasHeight), 16).ctx

(***************************************************************************)
(* src/src/index.js: the event handlers                                    *)
(***************************************************************************)
\* canvasResizeCtx without the redraw: the sized canvas stays blank
canvasResizeCtxBlank(width, height) ==
    DefaultCtx

\* Assigning canvas.width or canvas.height clears the bitmap and resets the
\* context to its default state; drawTable then reads the size back from
\* ctx.canvas.
canvasResizeCtx(width, height) ==
    drawTable(DefaultCtx, Num(width), Num(height))

toggleAbout(display) ==
    IF display = "none" THEN "" ELSE "none"

\* path.forEach((elm) => { if (elm.id == 'about') return }), lines 60-62.
\* returned tells whether the click handler itself has returned.  The return
\* of line 61 leaves the callback of one element only: forEach drops what the
\* callback returns and goes on to the next element.
RECURSIVE ForEachElm(_, _)
ForEachElm(path, returned) ==
    IF path = <<>> THEN returned
    ELSE IF Head(path) = "about" THEN ForEachElm(Tail(path), returned)
    ELSE ForEachElm(Tail(path), returned)

\* document.onclick as hideAbout installs it: lines 57-64
documentOnClick(display, path) ==
    IF display = "none" THEN display
    ELSE IF ForEachElm(path, FALSE) THEN display
    ELSE "none"

\* canvas.toDataURL("image/jpeg"): the encoded bitmap, told apart by its size and
\* by the number of calls that painted it
toDataURL(size, c) ==
    [type |-> "image/jpeg", width |-> size.width, height |-> size.height, calls |-> Len(c.ops)]

(***************************************************************************)
(* Inputs                                                                   *)
(***************************************************************************)
\* Client heights 0 .. MaxSmall are tried next to the full-size ones.
MaxSmall == 9
\* drawTable runs of one behaviour of SpecDraw.
MaxRuns == 2

Widths == {0, 1000, 1200}
BigHeights == {451, 600, 900}
Heights == (0 .. MaxSmall) \cup BigHeights
Size(w, h) == [width |-> w, height |-> h]
\* The client sizes of the window behaviours.
ClientSizes == {Size(w, h) : w \in {1000, 1200}, h \in {3, 600}}
\* The canvas sizes drawTable is tried on.
DrawSizes == {Size(w, h) : w \in Widths, h \in Heights}

\* Composed paths of clicks, as the ids of the elements from the target up.
PathOutside == <<"content", "">>
PathOnAbout == <<"about", "">>
PathInsideAbout == <<"", "about", "">>
ClickPaths == {PathOutside, PathOnAbout, PathInsideAbout}
PathOfSave == <<"save", "">>
PathOfLink == <<"data_url_link", "">>

\* Style states another drawing may have left in the context.
LeftStyles ==
    { [fillStyle |-> Color("#f00"), strokeStyle |-> "#0f0", lineWidth |-> Num(1),
       lineDash |-> <<Num(1)>>],
      [fillStyle |-> Color("#fff"), strokeStyle |-> "#000", lineWidth |-> Num(4),
       lineDash |-> <<>>],
      [fillStyle |-> Color("#000000"), strokeStyle |-> "#000000", lineWidth |-> Num(1),
       lineDash |-> <<>>] }

WithStyle(c, st) ==
    [c EXCEPT !.fillStyle = st.fillStyle, !.strokeStyle = st.strokeStyle,
              !.lineWidth = st.lineWidth, !.lineDash = st.lineDash]

NoMoire == [pc |-> "none"]
NoPrev == [runs |-> 0, ops |-> <<>>, start |-> DefaultCtx]
NoLink == [href |-> [type |-> ""], download |-> ""]
NoEvent == [type |-> "init", path |-> <<>>, before |-> ""]

(***************************************************************************)
(* Spec: the window.  Init is the state init() leaves: canvasResize has    *)
(* run once, the listeners are installed.  The About element's display is  *)
(* whatever the page sets.                                                 *)
(***************************************************************************)
Init ==
    /\ \E s \in ClientSizes :
        /\ client = s
        /\ canvas = s
        /\ canvasStyle = s
        /\ ctx = canvasResizeCtx(s.width, s.height)
    /\ about \in {"", "none"}
    /\ link = NoLink
    /\ event = NoEvent
    /\ moire = NoMoire
    /\ prev = NoPrev

\* window.onresize
canvasResize ==
    \E s \in ClientSizes :
        /\ client' = s
        /\ canvas' = Size(s.width, s.height)
        /\ canvasStyle' = Size(s.width, s.height)
        /\ ctx' = canvasResizeCtx(s.width, s.height)
        /\ event' = [type |-> "resize", path |-> <<>>, before |-> about]
        /\ UNCHANGED <<about, link, moire, prev>>

\* A click on the save button: save(), whose dataUrlLink.click() dispatches a
\* click that bubbles to the document, and then the click itself bubbles there.
save ==
    /\ link' = [href |-> toDataURL(canvas, ctx), download |-> "camera-alignment-table.jpg"]
    /\ about' = documentOnClick(documentOnClick(about, PathOfLink), PathOfSave)
    /\ event' = [type |-> "save", path |-> PathOfSave, before |-> about]
    /\ UNCHANGED <<canvas, canvasStyle, client, ctx, moire, prev>>

\* A click on the About button: the listener stops the propagation.
aboutButtonClick ==
    /\ about' = toggleAbout(about)
    /\ event' = [type |-> "about_button", path |-> <<"about_button", "">>, before |-> about]
    /\ UNCHANGED <<canvas, canvasStyle, client, ctx, link, moire, prev>>

\* A click anywhere else, reaching document.onclick.
documentClick ==
    \E path \in ClickPaths :
        /\ about' = documentOnClick(about, path)
        /\ event' = [type |-> "click", path |-> path, before |-> about]
        /\ UNCHANGED <<canvas, canvasStyle, client, ctx, link, moire, prev>>

Next ==
    \/ canvasResize
    \/ save
    \/ aboutButtonClick
    \/ documentClick

Spec == Init /\ [][Next]_vars

(***************************************************************************)
(* SpecDraw: drawTable as a function of the canvas size and of the context *)
(* state it finds, run up to MaxRuns times on the same canvas.             *)
(***************************************************************************)
InitDraw ==
    /\ canvas \in DrawSizes
    /\ client = canvas
    /\ canvasStyle = canvas
    /\ \E st \in LeftStyles : ctx = WithStyle(DefaultCtx, st)
    /\ about = ""
    /\ link = NoLink
    /\ event = NoEvent
    /\ moire = NoMoire
    /\ prev = NoPrev

\* One drawTable run; the log restarts with it.
DrawRun ==
    /\ prev.runs < MaxRuns
    /\ ctx' = drawTable([ctx EXCEPT !.ops = <<>>], Num(canvas.width), Num(canvas.height))
    /\ prev' = [runs |-> prev.runs + 1, ops |-> ctx.ops, start |-> [ctx EXCEPT !.ops = <<>>]]
    /\ event' = [type |-> "draw", path |-> <<>>, before |-> about]
    /\ UNCHANGED <<canvas, canvasStyle, client, about, link, moire>>

\* Another drawing changes the style state between two runs.
DrawDisturb ==
    \E st \in LeftStyles :
        /\ prev.runs > 0
        /\ event.type = "draw"
        /\ ctx' = WithStyle(ctx, st)
        /\ event' = [type |-> "disturb", path |-> <<>>, before |-> about]
        /\ UNCHANGED <<canvas, canvasStyle, client, about, link, moire, prev>>

NextDraw ==
    \/ DrawRun
    \/ DrawDisturb

SpecDraw == InitDraw /\ [][NextDraw]_vars

(***************************************************************************)
(* SpecMoire: one drawTargetMoire call, a loop iteration per step.         *)
(***************************************************************************)
\* Outer radii: not a number, negative, zero, and positive ones below and
\* above the radii of the frames; in halves, as height / 2 is.
OutRs ==
    {NaN, Num(-5), Num(0), Num(2), Num(30), Num(50),
     Fin((171 * ONE) \div 2), Num(100), Num(300), Num(450)}
RectHeights == {0, 10, 50, 100, 249, 250, 600, 900}

InitMoire ==
    /\ \E outR \in OutRs, h \in RectHeights :
        moire = MoireEnter(DefaultCtx, Num(600), Num(450), outR,
                           FrameRect(Num(1200), Num(h)))
    /\ canvas = Size(0, 0)
    /\ client = canvas
    /\ canvasStyle = canvas
    /\ ctx = DefaultCtx
    /\ about = ""
    /\ link = NoLink
    /\ event = NoEvent
    /\ prev = NoPrev

MoireLoop ==
    /\ moire.pc = "loop"
    /\ moire' = MoireStep(moire)
    /\ UNCHANGED <<canvas, canvasStyle, client, ctx, about, link, event, prev>>

NextMoire == MoireLoop

SpecMoire == InitMoire /\ [][NextMoire]_vars

\* The loop is not suspended: a call that can take a step takes it.
FairSpecMoire == SpecMoire /\ WF_vars(MoireLoop)

(***************************************************************************)
(* Properties.  What a drawTable run did is read back from the calls it    *)
(* logged in ctx.ops: call 1 is the clearRect, call 2 the black fill, call *)
(* 3 the white fill of frameRect; the dashed strokes are the chess lines,  *)
(* the fills with a radial gradient the rings, the solid strokes the guide *)
(* lines.                                                                  *)
(***************************************************************************)
\* ctx.ops is the log of a whole drawTable run of SpecDraw
Drawn == event.type \in {"draw", "disturb"}
IsRing(o) == o.op = "fillRect" /\ o.fillStyle.kind = "radial"
IsDashed(o) == o.op = "stroke" /\ o.lineDash # <<>>
IsSolid(o) == o.op = "stroke" /\ o.lineDash = <<>>
\* the integer a finite integral number stands for
IntOf(a) == a.v \div ONE

\* g = <<x, y, w, h>> is the frame of a W x H canvas, with the floors stated
\* by their defining inequalities
C1_IsFrame(g, W, H) ==
    /\ g[2] = Num(0)
    /\ g[4] = Num(H)
    /\ IsInteger[g[3]]
    /\ 3 * IntOf(g[3]) <= 4 * H
    /\ 4 * H < 3 * IntOf(g[3]) + 3
    /\ IsInteger[g[1]]
    /\ 2 * IntOf(g[1]) <= W - IntOf(g[3])
    /\ W - IntOf(g[3]) < 2 * IntOf(g[1]) + 2

\* C1: for every canvas size W >= 0, H > 0 the frame rectangle drawTable
\* fills has height H, width floor(H*4/3), topLeftX floor((W - width)/2) and
\* topLeftY 0, with no clamp when the width exceeds W.
C1_FrameRect ==
    (Drawn /\ canvas.height > 0) =>
        /\ Len(ctx.ops) >= 3
        /\ ctx.ops[3].op = "fillRect"
        /\ ctx.ops[3].fillStyle = Color("#fff")
        /\ C1_IsFrame(ctx.ops[3].g, canvas.width, canvas.height)

\* A 1000 x 900 canvas: the frame is 1200 wide and starts at x = -100.
C1_Witness ==
    /\ Drawn
    /\ canvas = Size(1000, 900)
    /\ ctx.ops[3].g = <<Num(-100), Num(0), Num(1200), Num(900)>>

\* The y of the second horizontal guide line, frameRect.topLeftY +
\* cornerTargetRad with topLeftY = 0: cornerTargetRad.
C6_Rad == ctx.ops[Len(ctx.ops) - 4].g[1][3]

\* C6: for every frame of a canvas with H > 0, the 800 x 600 frame among
\* them, cornerTargetRad is strictly positive and less than b = height / 2,
\* and the centres of the rings lie inside the frame.
C6_CornerRad ==
    (Drawn /\ canvas.height > 0) =>
        /\ Gt[C6_Rad, Num(0)]
        /\ Lt[C6_Rad, Div[Num(canvas.height), Num(2)]]
        /\ \A i \in DOMAIN ctx.ops :
              IsRing(ctx.ops[i]) =>
                  /\ Ge[ctx.ops[i].fillStyle.grd[1], ctx.ops[3].g[1]]
                  /\ Le[ctx.ops[i].fillStyle.grd[1], Add[ctx.ops[3].g[1], ctx.ops[3].g[3]]]
                  /\ Ge[ctx.ops[i].fillStyle.grd[2], Num(0)]
                  /\ Le[ctx.ops[i].fillStyle.grd[2], Num(canvas.height)]

\* The 800 x 600 frame: a = 400, b = 300, cornerTargetRad between 85 and 86.
C6_Witness ==
    /\ Drawn
    /\ canvas.height = 600
    /\ ctx.ops[3].g[3] = Num(800)
    /\ Gt[C6_Rad, Num(85)]
    /\ Lt[C6_Rad, Num(86)]

\* The y of the i-th horizontal and the x of the j-th vertical guide line,
\* in the order drawn: center, near the top or left, near the bottom or right.
C7_HorY(i) == ctx.ops[Len(ctx.ops) - 6 + i].g[1][3]
C7_VertX(j) == ctx.ops[Len(ctx.ops) - 3 + j].g[1][2]
\* The crossing of the center lines and the four crossings near the corners.
C7_Crossings ==
    { <<C7_VertX(1), C7_HorY(1)>>,
      <<C7_VertX(2), C7_HorY(2)>>, <<C7_VertX(3), C7_HorY(2)>>,
      <<C7_VertX(2), C7_HorY(3)>>, <<C7_VertX(3), C7_HorY(3)>> }
\* The centres of the rings painted.
C7_Centers ==
    { <<ctx.ops[i].fillStyle.grd[1], ctx.ops[i].fillStyle.grd[2]>> :
          i \in {k \in DOMAIN ctx.ops : IsRing(ctx.ops[k])} }

\* C7: in every drawTable run exactly 3 horizontal and 3 vertical guide lines
\* are drawn, after all ring targets, and every ring target is centred on
\* the crossing of a horizontal and a vertical guide line of that run: the
\* center target on the center lines, the corner targets on the lines at
\* cornerTargetRad from the frame's edges.
C7_TargetsOnLines ==
    Drawn =>
        /\ Len(ctx.ops) >= 9
        /\ \A i \in DOMAIN ctx.ops : IsSolid(ctx.ops[i]) <=> i > Len(ctx.ops) - 6
        /\ \A i \in 1 .. 3 :
              LET o == ctx.ops[Len(ctx.ops) - 6 + i]
              IN  Len(o.g) = 2 /\ o.g[1][3] = o.g[2][3]
        /\ \A j \in 1 .. 3 :
              LET o == ctx.ops[Len(ctx.ops) - 3 + j]
              IN  Len(o.g) = 2 /\ o.g[1][2] = o.g[2][2]
        /\ C7_Centers \subseteq C7_Crossings
        /\ \A i \in DOMAIN ctx.ops :
              (IsRing(ctx.ops[i]) /\ ~IsRing(ctx.ops[i - 1])) =>
                  ctx.ops[i].fillStyle.grd[1] = C7_VertX(1)
                  /\ ctx.ops[i].fillStyle.grd[2] = C7_HorY(1)

\* A run that painted rings around all five centres.
C7_Witness ==
    Drawn /\ Cardinality(C7_Centers) = 5 /\ Cardinality(C7_Crossings) = 5

\* cellSize and the number of lines y = cellSize/2 + k * cellSize <= height
C8_Cell == IF canvas.height % 2 = 1 THEN 6 ELSE 8
C8_Count ==
    IF canvas.height < C8_Cell \div 2 THEN 0
    ELSE (canvas.height - C8_Cell \div 2) \div C8_Cell + 1

\* C8: drawChessMoire strokes lines exactly at y = cellSize/2 + k * cellSize,
\* k = 0, 1, ..., while y <= rect.height, with cellSize 6 for an odd and 8 for
\* an even height; line k starts at offset 0 for even k and at offset
\* cellSize for odd k.
C8_ChessLines ==
    Drawn =>
        /\ \A i \in DOMAIN ctx.ops :
              IsDashed(ctx.ops[i]) <=> (4 <= i /\ i < 4 + C8_Count)
        /\ \A k \in 0 .. C8_Count - 1 :
              LET o == ctx.ops[4 + k]
                  y == Num(C8_Cell \div 2 + k * C8_Cell)
              IN  /\ o.lineWidth = Num(C8_Cell)
                  /\ o.lineDash = <<Num(C8_Cell), Num(C8_Cell)>>
                  /\ o.g = << <<"M", Add[ctx.ops[3].g[1],
                                         Num(IF k % 2 = 0 THEN 0 ELSE C8_Cell)], y>>,
                              <<"L", Add[ctx.ops[3].g[1], ctx.ops[3].g[3]], y>> >>

\* An odd height, 451: 75 lines, the last one at y = 3 + 74 * 6 = 447.
C8_Witness ==
    /\ Drawn
    /\ canvas.height = 451
    /\ C8_Count = 75
    /\ IsDashed(ctx.ops[78])
    /\ ctx.ops[78].g[1][3] = Num(447)
    /\ ~IsDashed(ctx.ops[79])

\* The style values a drawTable run sets before it paints with them.
C3_SetInRun(o) ==
    CASE o.op = "clearRect" -> TRUE
      [] o.op = "fillRect" ->
           \/ o.fillStyle \in {Color("#000"), Color("#fff")}
           \/ o.fillStyle.kind = "radial" /\ Len(o.fillStyle.stops) = 6
      [] o.op = "stroke" ->
           /\ o.strokeStyle = "#000"
           /\ o.lineWidth \in {Num(3), Num(4), Num(6), Num(8)}
           /\ o.lineDash \in {<<>>, <<Num(6), Num(6)>>, <<Num(8), Num(8)>>}
      [] OTHER -> FALSE

\* C3: two drawTable runs on the same canvas size make the same calls with
\* the same parameters and styles, whatever fillStyle, strokeStyle, lineWidth
\* and line dash the context held when each run started: every fill and
\* every stroke paints with values set earlier in the same run.
C3_Deterministic ==
    /\ Drawn => \A i \in DOMAIN ctx.ops : C3_SetInRun(ctx.ops[i])
    /\ (Drawn /\ prev.runs >= 2) => prev.ops = ctx.ops

\* A second run that started with a stale stroke style and dash pattern
\* and made the calls of the first.
C3_Witness ==
    /\ event.type = "draw"
    /\ prev.runs = 2
    /\ prev.start.strokeStyle = "#0f0"
    /\ prev.start.lineDash = <<Num(1)>>
    /\ Len(ctx.ops) > 200
    /\ prev.ops = ctx.ops

\* C2: after init and after any sequence of resizes, saves and clicks the
\* canvas size is the client size read by the latest canvasResize, and the
\* calls in the context are those of one drawTable run on exactly that size,
\* first of them the clearRect of the whole canvas.
C2_CanvasFollowsClient ==
    /\ canvas = client
    /\ canvasStyle = client
    /\ Len(ctx.ops) >= 3
    /\ ctx.ops[1].op = "clearRect"
    /\ ctx.ops[1].g = <<Num(0), Num(0), Num(client.width), Num(client.height)>>
    /\ ctx.ops[2].g = ctx.ops[1].g
    /\ ctx.ops = drawTable(DefaultCtx, Num(client.width), Num(client.height)).ops

\* A resize to another size than the one a save has exported before it.
C2_Witness ==
    /\ event.type = "resize"
    /\ link.href.type = "image/jpeg"
    /\ link.href.height # canvas.height
    /\ canvas.height = 600
    /\ about = "none"

InPath(id, path) == \E i \in DOMAIN path : path[i] = id

\* C10: while About is visible a document click whose composed path holds
\* the About element leaves it visible, a document click outside hides it,
\* and a click on the About button only toggles it.
C10_AboutClicks ==
    /\ (event.type = "click" /\ event.before # "none" /\ InPath("about", event.path))
           => about # "none"
    /\ (event.type = "click" /\ event.before # "none" /\ ~InPath("about", event.path))
           => about = "none"
    /\ event.type = "about_button"
           => about = (IF event.before = "none" THEN "" ELSE "none")

\* A click inside the visible About element, after which it is hidden.
C10_Witness ==
    /\ event.type = "click"
    /\ event.path = PathInsideAbout
    /\ event.before = ""
    /\ about = "none"

\* The gradient of the i-th ring of the call: <<x, y, curR - 5, x, y, curR + prgValue>>
RingGrd(i) == moire.ctx.ops[i].fillStyle.grd
\* Its width prgValue, read back from the two radii.
RingWidth(i) == Sub[Sub[RingGrd(i)[6], RingGrd(i)[3]], Num(5)]

\* C4: a ring is painted only where curR >= 5, prgValue > 1 and
\* curR + prgValue <= outR, so the inner radius curR - 5 of its gradient is
\* never negative and is smaller than the outer radius; for an outR that is
\* zero, negative or not a number no ring is painted.
C4_RingGuards ==
    /\ moire.rings = Len(moire.ctx.ops)
    /\ \A i \in DOMAIN moire.ctx.ops :
          /\ IsRing(moire.ctx.ops[i])
          /\ Ge[RingGrd(i)[3], Num(0)]
          /\ Lt[RingGrd(i)[3], RingGrd(i)[6]]
          /\ Gt[RingWidth(i), Num(1)]
          /\ Le[RingGrd(i)[6], moire.outR]
    /\ ~Gt[moire.outR, Num(0)] => moire.rings = 0

\* A call that has painted twenty rings and more.
C4_Witness ==
    moire.pc = "done" /\ moire.rings >= 20 /\ Ge[RingGrd(1)[3], Num(0)]

\* C5: the ring loop terminates for every outR and rect, and the number of
\* rings a call paints is bounded by outR.
C5_Terminates ==
    /\ [](moire.rings = 0 \/ Le[Num(moire.rings), moire.outR])
    /\ <>(moire.pc = "done")

\* A call that has left the loop with forty rings and more painted.
C5_Witness ==
    moire.pc = "done" /\ moire.rings >= 40 /\ Le[Num(moire.rings), moire.outR]

\* The widest gap allowed between a ring's width and q times the width of
\* the ring before it: the rounding of two powers.
C9_Tolerance == Fin(ONE \div 16)

\* C9 as stated: the first ring has width startR and every later painted
\* ring is wider than the ring painted before it.
C9_Widening ==
    /\ moire.rings >= 1 => RingWidth(1) = moire.startR
    /\ \A i \in 2 .. moire.rings : Gt[RingWidth(i), RingWidth(i - 1)]

\* C9, amended: the ring widths are the geometric progression
\* startR * q^(step - 1); wherever a ring is painted 0 < q < 1, the first ring
\* has width startR and every later painted ring is narrower than the ring
\* painted before it.
C9_Narrowing ==
    /\ moire.rings >= 1 =>
          /\ RingWidth(1) = moire.startR
          /\ Gt[moire.q, Num(0)]
          /\ Lt[moire.q, Num(1)]
    /\ \A i \in 2 .. moire.rings :
          /\ Lt[RingWidth(i), RingWidth(i - 1)]
          /\ Lt[Sub[RingWidth(i), Mul[RingWidth(i - 1), moire.q]], C9_Tolerance]
          /\ Lt[Sub[Mul[RingWidth(i - 1), moire.q], RingWidth(i)], C9_Tolerance]

\* A finished call whose second ring is narrower than its first.
C9_Witness ==
    /\ moire.pc = "done"
    /\ moire.rings >= 2
    /\ Lt[RingWidth(2), RingWidth(1)]

====
